---------------------------- MODULE Spec2Model ----------------------------
(***************************************************************************)
(* Model of openai_api/common/conf.py: the Settings snapshot built once at *)
(* import time from the process environment, its field validators, the     *)
(* frozen snapshot, the lazily created boto3 session and cloudwatch_dump.   *)
(*                                                                         *)
(* Python values are tagged records (None, bool, int, str); a str is a     *)
(* sequence of one-character strings so that lower() and int() are          *)
(* computed character by character.                                         *)
(*                                                                         *)
(* Settings derives from pydantic_settings.BaseSettings, so the class is    *)
(* built by pydantic 2: a field is read from the environment variable that  *)
(* carries the field's own name (the env=, pre= and getter= keywords of     *)
(* Field are kept as schema extras and select nothing), a default is not    *)
(* validated, "before" validators of one field run last-declared first,     *)
(* and a str field does not accept an int.                                  *)
(***************************************************************************)
EXTENDS Integers, Sequences, FiniteSets, TLC

VARIABLES
    environ,        \* os.environ: recognized key -> None (unset) or str
    AWS_REGIONS,    \* conf.AWS_REGIONS, the region names describe_regions returned
    phase,          \* "import" before line 316, then "ready", "failed" or "aborted"
    settings,       \* the module-level settings: field -> value, empty when None
    error,          \* the exception the import ended with
    bool_result,    \* last result of empty_str_to_bool_default
    int_result,     \* last result of empty_str_to_int_default
    aws_session_,   \* Settings._aws_session: id 0 is None, id n the n-th boto3.Session
    created,        \* number of boto3.Session objects created by aws_session
    pc,             \* per thread: position inside the aws_session property
    local,          \* per thread: the session it has built and not yet stored
    returned,       \* per thread: the ids of the sessions its accesses returned
    last_op         \* outcome of the last assignment attempt or export

vars == <<environ, AWS_REGIONS, phase, settings, error, bool_result, int_result,
          aws_session_, created, pc, local, returned, last_op>>

-----------------------------------------------------------------------------
(* Bounds of the model *)

\* keys of the environment that are set (possibly to "") in one run
MaxEnvVars == 2
\* threads that share the settings object
NumThreads == 2

-----------------------------------------------------------------------------
(* Python values *)

None == [t |-> "none", s |-> <<>>, n |-> 0]
Str(s) == [t |-> "str", s |-> s, n |-> 0]
IntV(n) == [t |-> "int", s |-> <<>>, n |-> n]
BoolV(b) == [t |-> "bool", s |-> <<>>, n |-> IF b THEN 1 ELSE 0]

\* v in [None, ""]
IsNoneOrEmpty(v) == v = None \/ v = Str(<<>>)

\* isinstance(v, int); bool is a subclass of int
IsInstanceInt(v) == v.t \in {"int", "bool"}

\* isinstance(v, bool)
IsInstanceBool(v) == v.t = "bool"

\* bool(v), the truth value the `if` statements test
Truthy(v) ==
    CASE v.t = "none" -> FALSE
      [] v.t = "str"  -> v.s # <<>>
      [] OTHER        -> v.n # 0

UpperCase == <<"A","B","C","D","E","F","G","H","I","J","K","L","M",
               "N","O","P","Q","R","S","T","U","V","W","X","Y","Z">>
LowerCase == <<"a","b","c","d","e","f","g","h","i","j","k","l","m",
               "n","o","p","q","r","s","t","u","v","w","x","y","z">>

LowerChar(c) ==
    IF \E i \in 1..26 : UpperCase[i] = c
    THEN LowerCase[CHOOSE i \in 1..26 : UpperCase[i] = c]
    ELSE c

\* str.lower()
lower(s) == [i \in 1..Len(s) |-> LowerChar(s[i])]

Digits == <<"0","1","2","3","4","5","6","7","8","9">>
IsDigit(c) == \E i \in 1..10 : Digits[i] = c
DigitValue(c) == (CHOOSE i \in 1..10 : Digits[i] = c) - 1

RECURSIVE DigitsValue(_)
DigitsValue(s) ==
    IF s = <<>> THEN 0
    ELSE 10 * DigitsValue(SubSeq(s, 1, Len(s) - 1)) + DigitValue(s[Len(s)])

HasSign(s) == Len(s) > 0 /\ s[1] \in {"+", "-"}
Unsigned(s) == IF HasSign(s) THEN Tail(s) ELSE s

\* whether int(s) accepts the str s: an optional sign, then decimal digits
\* (the values drawn below hold no blank and no underscore, which int() would
\* also let through)
IsIntLiteral(s) ==
    /\ Len(Unsigned(s)) > 0
    /\ \A i \in 1..Len(Unsigned(s)) : IsDigit(Unsigned(s)[i])

IntLiteralValue(s) ==
    IF HasSign(s) /\ s[1] = "-" THEN 0 - DigitsValue(Unsigned(s))
    ELSE DigitsValue(Unsigned(s))

(* Outcome of a call: a returned value, or a raised exception *)
Ok(v) == [ok |-> TRUE, v |-> v, exc |-> "", msg |-> <<>>]
Raise(exc, v, msg) == [ok |-> FALSE, v |-> v, exc |-> exc, msg |-> msg]

\* int(v)
PyInt(v) ==
    CASE v.t \in {"int", "bool"} -> Ok(IntV(v.n))
      [] v.t = "str" ->
            IF IsIntLiteral(v.s) THEN Ok(IntV(IntLiteralValue(v.s)))
            ELSE Raise("ValueError", v, <<"invalid literal for int()">>)
      [] OTHER -> Raise("TypeError", v, <<"int() argument">>)


-----------------------------------------------------------------------------
(* String literals of the source *)

s_us_east_1 == <<"u","s","-","e","a","s","t","-","1">>
s_rekognition == <<"r","e","k","o","g","n","i","t","i","o","n">>
s_collection_suffix == <<"-","c","o","l","l","e","c","t","i","o","n">>
s_DEFAULT == <<"D","E","F","A","U","L","T">>
s_AUTO == <<"A","U","T","O">>
s_chat_history == <<"c","h","a","t","_","h","i","s","t","o","r","y">>
s_1024x768 == <<"1","0","2","4","x","7","6","8">>
s_true == <<"t","r","u","e">>
s_1 == <<"1">>
s_t == <<"t">>
s_y == <<"y">>
s_yes == <<"y","e","s">>

(* class SettingsDefaults *)
SettingsDefaults ==
    [DEBUG_MODE |-> BoolV(FALSE),
     AWS_PROFILE |-> None,
     AWS_REGION |-> Str(s_us_east_1),
     AWS_DYNAMODB_TABLE_ID |-> Str(s_rekognition),
     AWS_REKOGNITION_COLLECTION_ID |-> Str(s_rekognition \o s_collection_suffix),
     AWS_REKOGNITION_FACE_DETECT_MAX_FACES_COUNT |-> IntV(10),
     AWS_REKOGNITION_FACE_DETECT_THRESHOLD |-> IntV(10),
     AWS_REKOGNITION_FACE_DETECT_ATTRIBUTES |-> Str(s_DEFAULT),
     AWS_REKOGNITION_FACE_DETECT_QUALITY_FILTER |-> Str(s_AUTO),
     LANGCHAIN_MEMORY_KEY |-> Str(s_chat_history),
     OPENAI_API_ORGANIZATION |-> None,
     OPENAI_API_KEY |-> None,
     OPENAI_ENDPOINT_IMAGE_N |-> IntV(4),
     OPENAI_ENDPOINT_IMAGE_SIZE |-> Str(s_1024x768),
     PINECONE_API_KEY |-> None]

\* the recognized settings: the names SettingsDefaults declares
SettingKeys == DOMAIN SettingsDefaults

\* def empty_str_to_bool_default(v, default)
empty_str_to_bool_default(v, default) ==
    IF IsNoneOrEmpty(v) THEN default
    ELSE BoolV(lower(v.s) \in {s_true, s_1, s_t, s_y, s_yes})

\* def empty_str_to_int_default(v, default)
empty_str_to_int_default(v, default) ==
    IF IsNoneOrEmpty(v) THEN default
    ELSE IF PyInt(v).ok THEN PyInt(v).v ELSE default

-----------------------------------------------------------------------------
(* class Settings: the fields *)

\* the annotated names of the class body, in the order of their first
\* annotation; a name annotated again keeps its place
FieldOrder ==
    <<"debug_mode", "aws_profile", "aws_regions", "aws_region",
      "aws_dynamodb_table_id", "aws_rekognition_collection_id",
      "aws_rekognition_face_detect_attributes", "langchain_memory_key",
      "openai_api_organization", "openai_api_key", "openai_endpoint_image_n",
      "openai_endpoint_image_size", "pinecone_api_key">>

FieldNames == {FieldOrder[i] : i \in 1..Len(FieldOrder)}

\* the fields filled from the environment (aws_regions keeps AWS_REGIONS)
EnvFields == FieldNames \ {"aws_regions"}

\* The class attribute each setting's Field(...) is assigned to.  The four
\* face-detect settings are all assigned to the one name
\* aws_rekognition_face_detect_attributes.
FieldOf(key) ==
    CASE key = "DEBUG_MODE" -> "debug_mode"
      [] key = "AWS_PROFILE" -> "aws_profile"
      [] key = "AWS_REGION" -> "aws_region"
      [] key = "AWS_DYNAMODB_TABLE_ID" -> "aws_dynamodb_table_id"
      [] key = "AWS_REKOGNITION_COLLECTION_ID" -> "aws_rekognition_collection_id"
      [] key = "AWS_REKOGNITION_FACE_DETECT_ATTRIBUTES" ->
            "aws_rekognition_face_detect_attributes"
      [] key = "AWS_REKOGNITION_FACE_DETECT_QUALITY_FILTER" ->
            "aws_rekognition_face_detect_attributes"
      [] key = "AWS_REKOGNITION_FACE_DETECT_MAX_FACES_COUNT" ->
            "aws_rekognition_face_detect_attributes"
      [] key = "AWS_REKOGNITION_FACE_DETECT_THRESHOLD" ->
            "aws_rekognition_face_detect_attributes"
      [] key = "LANGCHAIN_MEMORY_KEY" -> "langchain_memory_key"
      [] key = "OPENAI_API_ORGANIZATION" -> "openai_api_organization"
      [] key = "OPENAI_API_KEY" -> "openai_api_key"
      [] key = "OPENAI_ENDPOINT_IMAGE_N" -> "openai_endpoint_image_n"
      [] key = "OPENAI_ENDPOINT_IMAGE_SIZE" -> "openai_endpoint_image_size"
      [] key = "PINECONE_API_KEY" -> "pinecone_api_key"

\* The environment variable a field is read from: the field's own name in
\* upper case.  For every field but the face-detect one this is the key its
\* Field(...) names with env=.
EnvName(f) ==
    CASE f = "debug_mode" -> "DEBUG_MODE"
      [] f = "aws_profile" -> "AWS_PROFILE"
      [] f = "aws_region" -> "AWS_REGION"
      [] f = "aws_dynamodb_table_id" -> "AWS_DYNAMODB_TABLE_ID"
      [] f = "aws_rekognition_collection_id" -> "AWS_REKOGNITION_COLLECTION_ID"
      [] f = "aws_rekognition_face_detect_attributes" ->
            "AWS_REKOGNITION_FACE_DETECT_ATTRIBUTES"
      [] f = "langchain_memory_key" -> "LANGCHAIN_MEMORY_KEY"
      [] f = "openai_api_organization" -> "OPENAI_API_ORGANIZATION"
      [] f = "openai_api_key" -> "OPENAI_API_KEY"
      [] f = "openai_endpoint_image_n" -> "OPENAI_ENDPOINT_IMAGE_N"
      [] f = "openai_endpoint_image_size" -> "OPENAI_ENDPOINT_IMAGE_SIZE"
      [] f = "pinecone_api_key" -> "PINECONE_API_KEY"

\* The default of each field: the first argument of the Field(...) that is
\* bound to the name last (THRESHOLD for the face-detect name).
FieldDefault(f) ==
    CASE f = "debug_mode" -> SettingsDefaults.DEBUG_MODE
      [] f = "aws_profile" -> SettingsDefaults.AWS_PROFILE
      [] f = "aws_region" -> SettingsDefaults.AWS_REGION
      [] f = "aws_dynamodb_table_id" -> SettingsDefaults.AWS_DYNAMODB_TABLE_ID
      [] f = "aws_rekognition_collection_id" ->
            SettingsDefaults.AWS_REKOGNITION_COLLECTION_ID
      [] f = "aws_rekognition_face_detect_attributes" ->
            SettingsDefaults.AWS_REKOGNITION_FACE_DETECT_THRESHOLD
      [] f = "langchain_memory_key" -> SettingsDefaults.LANGCHAIN_MEMORY_KEY
      [] f = "openai_api_organization" -> SettingsDefaults.OPENAI_API_ORGANIZATION
      [] f = "openai_api_key" -> SettingsDefaults.OPENAI_API_KEY
      [] f = "openai_endpoint_image_n" -> SettingsDefaults.OPENAI_ENDPOINT_IMAGE_N
      [] f = "openai_endpoint_image_size" ->
            SettingsDefaults.OPENAI_ENDPOINT_IMAGE_SIZE
      [] f = "pinecone_api_key" -> SettingsDefaults.PINECONE_API_KEY

\* The annotation of each field, Optional[...] in every case; "int_gt_0" is
\* Optional[int] with gt=0, the last annotation of the face-detect name.
FieldType(f) ==
    CASE f = "debug_mode" -> "bool"
      [] f = "aws_rekognition_face_detect_attributes" -> "int_gt_0"
      [] OTHER -> "str"


-----------------------------------------------------------------------------
(* class Settings: the validators.  Each takes the raw value v (and, for    *)
(* validate_aws_region, the fields validated so far) and returns or raises. *)

\* The built-in exceptions OpenAIAPIValueError derives from.  The class is
\* defined in openai_api/common/exceptions.py; its failures are of the
\* ValueError kind, which the validation run collects.
OpenAIAPIValueErrorBases == {"ValueError"}

\* @validator("aws_profile", pre=True)
validate_aws_profile(v) ==
    IF IsNoneOrEmpty(v) THEN Ok(SettingsDefaults.AWS_PROFILE) ELSE Ok(v)

\* validate_aws_region without its membership test: the variant C1 is
\* compared against
validate_aws_region_unchecked(v, values) ==
    IF IsNoneOrEmpty(v) THEN Ok(SettingsDefaults.AWS_REGION) ELSE Ok(v)

\* @validator("aws_region", pre=True)
validate_aws_region(v, values) ==
    IF IsNoneOrEmpty(v) THEN Ok(SettingsDefaults.AWS_REGION)
    ELSE IF "aws_regions" \in DOMAIN values /\ v.s \notin values["aws_regions"]
         THEN Raise("OpenAIAPIValueError", v,
                    <<"aws_region", "{v}", "not in aws_regions">>)
         ELSE Ok(v)

\* @validator("aws_dynamodb_table_id", pre=True)
validate_table_id(v) ==
    IF IsNoneOrEmpty(v) THEN Ok(SettingsDefaults.AWS_DYNAMODB_TABLE_ID) ELSE Ok(v)

\* @validator("aws_rekognition_collection_id", pre=True)
validate_collection_id(v) ==
    IF IsNoneOrEmpty(v) THEN Ok(SettingsDefaults.AWS_REKOGNITION_COLLECTION_ID)
    ELSE Ok(v)

\* @validator("aws_rekognition_face_detect_attributes", pre=True)
validate_face_detect_attributes(v) ==
    IF IsNoneOrEmpty(v) THEN Ok(SettingsDefaults.AWS_REKOGNITION_FACE_DETECT_ATTRIBUTES)
    ELSE Ok(v)

\* parse_debug_mode comparing v itself, not v.lower(): the variant C10 is
\* compared against
parse_debug_mode_case_sensitive(v) ==
    IF IsInstanceBool(v) THEN Ok(v)
    ELSE IF IsNoneOrEmpty(v) THEN Ok(SettingsDefaults.DEBUG_MODE)
    ELSE Ok(BoolV(v.s \in {s_true, s_1, s_t, s_y, s_yes}))

\* @validator("debug_mode", pre=True)
parse_debug_mode(v) ==
    IF IsInstanceBool(v) THEN Ok(v)
    ELSE IF IsNoneOrEmpty(v) THEN Ok(SettingsDefaults.DEBUG_MODE)
    ELSE Ok(BoolV(lower(v.s) \in {s_true, s_1, s_t, s_y, s_yes}))

\* @validator("aws_rekognition_face_detect_attributes", pre=True)
check_face_detect_max_faces_count(v) ==
    IF IsNoneOrEmpty(v)
    THEN Ok(SettingsDefaults.AWS_REKOGNITION_FACE_DETECT_MAX_FACES_COUNT)
    ELSE PyInt(v)

\* @validator("aws_rekognition_face_detect_attributes", pre=True)
check_face_detect_threshold(v) ==
    IF IsInstanceInt(v) THEN Ok(v)
    ELSE IF IsNoneOrEmpty(v)
    THEN Ok(SettingsDefaults.AWS_REKOGNITION_FACE_DETECT_THRESHOLD)
    ELSE PyInt(v)

\* @validator("langchain_memory_key", pre=True)
check_langchain_memory_key(v) ==
    IF IsInstanceInt(v) THEN Ok(v)
    ELSE IF IsNoneOrEmpty(v) THEN Ok(SettingsDefaults.LANGCHAIN_MEMORY_KEY)
    ELSE PyInt(v)

\* @validator("openai_api_organization", pre=True)
check_openai_api_organization(v) ==
    IF IsInstanceInt(v) THEN Ok(v)
    ELSE IF IsNoneOrEmpty(v) THEN Ok(SettingsDefaults.OPENAI_API_ORGANIZATION)
    ELSE PyInt(v)

\* @validator("openai_api_key", pre=True)
check_openai_api_key(v) ==
    IF IsInstanceInt(v) THEN Ok(v)
    ELSE IF IsNoneOrEmpty(v) THEN Ok(SettingsDefaults.OPENAI_API_KEY)
    ELSE PyInt(v)

\* @validator("openai_endpoint_image_n", pre=True)
check_openai_endpoint_image_n(v) ==
    IF IsInstanceInt(v) THEN Ok(v)
    ELSE IF IsNoneOrEmpty(v) THEN Ok(SettingsDefaults.OPENAI_ENDPOINT_IMAGE_N)
    ELSE PyInt(v)

\* @validator("openai_endpoint_image_size", pre=True)
check_openai_endpoint_image_size(v) ==
    IF IsInstanceInt(v) THEN Ok(v)
    ELSE IF IsNoneOrEmpty(v) THEN Ok(SettingsDefaults.OPENAI_ENDPOINT_IMAGE_SIZE)
    ELSE PyInt(v)

\* @validator("pinecone_api_key", pre=True)
check_pinecone_api_key(v) ==
    IF IsInstanceInt(v) THEN Ok(v)
    ELSE IF IsNoneOrEmpty(v) THEN Ok(SettingsDefaults.PINECONE_API_KEY)
    ELSE PyInt(v)

\* the validators registered for each field, in the order the class body
\* declares them
ValidatorsOf(f) ==
    CASE f = "debug_mode" -> <<"parse_debug_mode">>
      [] f = "aws_profile" -> <<"validate_aws_profile">>
      [] f = "aws_region" -> <<"validate_aws_region">>
      [] f = "aws_dynamodb_table_id" -> <<"validate_table_id">>
      [] f = "aws_rekognition_collection_id" -> <<"validate_collection_id">>
      [] f = "aws_rekognition_face_detect_attributes" ->
            <<"validate_face_detect_attributes",
              "check_face_detect_max_faces_count",
              "check_face_detect_threshold">>
      [] f = "langchain_memory_key" -> <<"check_langchain_memory_key">>
      [] f = "openai_api_organization" -> <<"check_openai_api_organization">>
      [] f = "openai_api_key" -> <<"check_openai_api_key">>
      [] f = "openai_endpoint_image_n" -> <<"check_openai_endpoint_image_n">>
      [] f = "openai_endpoint_image_size" -> <<"check_openai_endpoint_image_size">>
      [] f = "pinecone_api_key" -> <<"check_pinecone_api_key">>

CallValidator(name, v, values) ==
    CASE name = "parse_debug_mode" -> parse_debug_mode(v)
      [] name = "validate_aws_profile" -> validate_aws_profile(v)
      [] name = "validate_aws_region" -> validate_aws_region(v, values)
      [] name = "validate_table_id" -> validate_table_id(v)
      [] name = "validate_collection_id" -> validate_collection_id(v)
      [] name = "validate_face_detect_attributes" -> validate_face_detect_attributes(v)
      [] name = "check_face_detect_max_faces_count" ->
            check_face_detect_max_faces_count(v)
      [] name = "check_face_detect_threshold" -> check_face_detect_threshold(v)
      [] name = "check_langchain_memory_key" -> check_langchain_memory_key(v)
      [] name = "check_openai_api_organization" -> check_openai_api_organization(v)
      [] name = "check_openai_api_key" -> check_openai_api_key(v)
      [] name = "check_openai_endpoint_image_n" -> check_openai_endpoint_image_n(v)
      [] name = "check_openai_endpoint_image_size" ->
            check_openai_endpoint_image_size(v)
      [] name = "check_pinecone_api_key" -> check_pinecone_api_key(v)

\* The pre=True validators of one field, the last declared applied first,
\* each to the value the one before it returned; the first exception ends
\* the field's run.
RECURSIVE RunValidators(_, _, _, _)
RunValidators(names, i, v, values) ==
    IF i = 0 THEN Ok(v)
    ELSE LET r == CallValidator(names[i], v, values)
         IN  IF r.ok THEN RunValidators(names, i - 1, r.v, values) ELSE r

\* The check of a value against the field's annotation, after the pre
\* validators: Optional[...] lets None through, a str field takes only a
\* str, the int field takes an int (or a str holding one) greater than 0,
\* the bool field takes a bool.
TypeValidate(type, v) ==
    CASE v = None -> Ok(v)
      [] type = "str" ->
            IF v.t = "str" THEN Ok(v)
            ELSE Raise("ValueError", v, <<"string_type">>)
      [] type = "int_gt_0" ->
            IF ~PyInt(v).ok THEN Raise("ValueError", v, <<"int_parsing">>)
            ELSE IF PyInt(v).v.n > 0 THEN Ok(PyInt(v).v)
            ELSE Raise("ValueError", PyInt(v).v, <<"greater_than">>)
      [] type = "bool" ->
            IF v.t = "bool" THEN Ok(v)
            ELSE IF v.t = "int" /\ v.n \in {0, 1} THEN Ok(BoolV(v.n = 1))
            ELSE Raise("ValueError", v, <<"bool_parsing">>)

\* One field of Settings(): an unset variable leaves the declared default,
\* unvalidated; a set one (the empty string included) goes through the
\* field's validators and then its annotation.
ValidateField(f, raw, values) ==
    IF raw = None THEN Ok(FieldDefault(f))
    ELSE LET r == RunValidators(ValidatorsOf(f), Len(ValidatorsOf(f)), raw, values)
         IN  IF r.ok THEN TypeValidate(FieldType(f), r.v) ELSE r

\* the exceptions of a validator that become one line of the ValidationError;
\* any other exception leaves Settings() at once
IsCollected(exc) ==
    exc \in {"ValueError", "AssertionError"}
    \/ (exc = "OpenAIAPIValueError"
        /\ OpenAIAPIValueErrorBases \cap {"ValueError", "AssertionError"} # {})

NoSettings == [f \in {} |-> None]

\* A validation run that stops at the first failing field: the variant C9
\* is compared against
RECURSIVE ValidateModel_first_failure(_, _, _, _)
ValidateModel_first_failure(i, env, regions, acc) ==
    IF i > Len(FieldOrder) \/ acc.propagated # "" \/ acc.errors # <<>> THEN acc
    ELSE LET f == FieldOrder[i]
         IN  IF f = "aws_regions"
             THEN ValidateModel_first_failure(i + 1, env, regions,
                      [acc EXCEPT !.values = (f :> regions) @@ @])
             ELSE LET r == ValidateField(f, env[EnvName(f)], acc.values)
                  IN  ValidateModel_first_failure(i + 1, env, regions,
                          IF r.ok
                          THEN [acc EXCEPT !.values = (f :> r.v) @@ @]
                          ELSE IF IsCollected(r.exc)
                          THEN [acc EXCEPT !.errors =
                                   Append(@, [field |-> f, input |-> r.v,
                                              exc |-> r.exc, msg |-> r.msg])]
                          ELSE [acc EXCEPT !.propagated = r.exc])

\* Settings(): every field in order, each validator seeing the fields that
\* validated before it; the failures are collected, one line per field.
RECURSIVE ValidateModel(_, _, _, _)
ValidateModel(i, env, regions, acc) ==
    IF i > Len(FieldOrder) \/ acc.propagated # "" THEN acc
    ELSE LET f == FieldOrder[i]
         IN  IF f = "aws_regions"
             THEN ValidateModel(i + 1, env, regions,
                      [acc EXCEPT !.values = (f :> regions) @@ @])
             ELSE LET r == ValidateField(f, env[EnvName(f)], acc.values)
                  IN  ValidateModel(i + 1, env, regions,
                          IF r.ok
                          THEN [acc EXCEPT !.values = (f :> r.v) @@ @]
                          ELSE IF IsCollected(r.exc)
                          THEN [acc EXCEPT !.errors =
                                   Append(@, [field |-> f, input |-> r.v,
                                              exc |-> r.exc, msg |-> r.msg])]
                          ELSE [acc EXCEPT !.propagated = r.exc])

Settings(env, regions) ==
    ValidateModel(1, env, regions,
                  [values |-> NoSettings, errors |-> <<>>, propagated |-> ""])


-----------------------------------------------------------------------------
(* The inputs: environments and region lists the process can start with *)

\* values a variable of the environment is set to, per key
RawValues(key) ==
    CASE key = "DEBUG_MODE" ->
            {<<>>, <<"t","r","u","e">>, <<"T","r","u","e">>, <<"1">>, <<"t">>, <<"y">>, <<"Y","e","s">>, <<"Y","E","S">>, <<"n","o">>, <<"0">>, <<"o","n">>}
      [] key = "AWS_PROFILE" -> {<<>>, <<"d","e","v">>}
      [] key = "AWS_REGION" -> {<<>>, <<"u","s","-","e","a","s","t","-","1">>, <<"c","n","-","n","o","r","t","h","-","1">>, <<"m","a","r","s","-","w","e","s","t","-","1">>}
      [] key = "AWS_DYNAMODB_TABLE_ID" -> {<<>>, <<"f","a","c","e","s">>}
      [] key = "AWS_REKOGNITION_COLLECTION_ID" -> {<<>>, <<"f","a","c","e","s">>}
      [] key = "AWS_REKOGNITION_FACE_DETECT_ATTRIBUTES" ->
            {<<>>, <<"A","L","L">>, <<"0">>, <<"-","5">>, <<"7">>}
      [] key = "AWS_REKOGNITION_FACE_DETECT_QUALITY_FILTER" -> {<<>>, <<"L","O","W">>}
      [] key = "AWS_REKOGNITION_FACE_DETECT_MAX_FACES_COUNT" -> {<<>>, <<"0">>, <<"-","5">>, <<"7">>}
      [] key = "AWS_REKOGNITION_FACE_DETECT_THRESHOLD" -> {<<>>, <<"0">>, <<"-","5">>, <<"7">>}
      [] key = "LANGCHAIN_MEMORY_KEY" -> {<<>>, <<"h","i","s","t","o","r","y">>, <<"4","2">>}
      [] key = "OPENAI_API_ORGANIZATION" -> {<<>>, <<"o","r","g","-","a","b","c">>}
      [] key = "OPENAI_API_KEY" -> {<<>>, <<"s","k","-","a","b","c">>, <<"4","2">>}
      [] key = "OPENAI_ENDPOINT_IMAGE_N" -> {<<>>, <<"n","o","t","a","n","u","m","b","e","r">>, <<"7">>}
      [] key = "OPENAI_ENDPOINT_IMAGE_SIZE" -> {<<>>, <<"5","1","2","x","5","1","2">>}
      [] key = "PINECONE_API_KEY" -> {<<>>, <<"p","c","-","k","e","y">>}

\* what ec2.describe_regions() can list: the regions of the commercial
\* partition, or those of another partition, where us-east-1 does not exist
RegionLists == {{<<"u","s","-","e","a","s","t","-","1">>, <<"e","u","-","w","e","s","t","-","1">>}, {<<"c","n","-","n","o","r","t","h","-","1">>}}

KeyOrder ==
    <<"AWS_REGION", "AWS_PROFILE", "DEBUG_MODE", "AWS_DYNAMODB_TABLE_ID",
      "AWS_REKOGNITION_COLLECTION_ID", "AWS_REKOGNITION_FACE_DETECT_ATTRIBUTES",
      "AWS_REKOGNITION_FACE_DETECT_QUALITY_FILTER",
      "AWS_REKOGNITION_FACE_DETECT_MAX_FACES_COUNT",
      "AWS_REKOGNITION_FACE_DETECT_THRESHOLD", "LANGCHAIN_MEMORY_KEY",
      "OPENAI_API_ORGANIZATION", "OPENAI_API_KEY", "OPENAI_ENDPOINT_IMAGE_N",
      "OPENAI_ENDPOINT_IMAGE_SIZE", "PINECONE_API_KEY">>

\* the environments over the keys KeyOrder[i..last] with at most n of the
\* keys in `among` set, every other key unset
RECURSIVE Environments(_, _, _)
Environments(i, n, among) ==
    IF i > Len(KeyOrder) THEN {NoSettings}
    ELSE LET k == KeyOrder[i]
         IN  {(k :> None) @@ e : e \in Environments(i + 1, n, among)}
             \cup
             (IF n > 0 /\ k \in among
              THEN {(k :> Str(s)) @@ e :
                        s \in RawValues(k), e \in Environments(i + 1, n - 1, among)}
              ELSE {})

NotCalled == [t |-> "not called", s |-> <<>>, n |-> 0]
NoError == [exc |-> "", lines |-> <<>>]
NoSession == [id |-> 0, profile_name |-> None, region_name |-> None]
NoOp == [op |-> "", result |-> "", out |-> NoSettings]
Threads == 1..NumThreads

InitRest ==
    /\ phase = "import"
    /\ settings = NoSettings
    /\ error = NoError
    /\ bool_result = NotCalled
    /\ int_result = NotCalled
    /\ aws_session_ = NoSession
    /\ created = 0
    /\ pc = [t \in Threads |-> "idle"]
    /\ local = [t \in Threads |-> NoSession]
    /\ returned = [t \in Threads |-> {}]
    /\ last_op = NoOp

\* a process started with any of the settings set
InitImport ==
    /\ environ \in Environments(1, MaxEnvVars, SettingKeys)
    /\ AWS_REGIONS \in RegionLists
    /\ InitRest

\* the settings the session is built from
SessionKeys == {"AWS_PROFILE", "AWS_REGION"}

\* a process started with at most one of the session's settings set
Init ==
    /\ environ \in Environments(1, 1, SessionKeys)
    /\ AWS_REGIONS \in RegionLists
    /\ InitRest

-----------------------------------------------------------------------------
(* Import of the module: settings = Settings(), lines 314 to 318 *)

\* OpenAIAPIConfigurationError("Invalid configuration: " + str(e)); str(e)
\* lists every line of the ValidationError
OpenAIAPIConfigurationError(lines) ==
    [exc |-> "OpenAIAPIConfigurationError", lines |-> lines]

Import ==
    /\ phase = "import"
    /\ LET r == Settings(environ, AWS_REGIONS)
       IN  IF r.propagated # ""
           THEN /\ phase' = "aborted"
                /\ error' = [exc |-> r.propagated, lines |-> <<>>]
                /\ settings' = NoSettings
           ELSE IF r.errors # <<>>
           THEN /\ phase' = "failed"
                /\ error' = OpenAIAPIConfigurationError(r.errors)
                /\ settings' = NoSettings
           ELSE /\ phase' = "ready"
                /\ error' = NoError
                /\ settings' = r.values
    /\ UNCHANGED <<environ, AWS_REGIONS, bool_result, int_result, aws_session_,
                   created, pc, local, returned, last_op>>

\* the getter of debug_mode: empty_str_to_bool_default(v, DEBUG_MODE)
CoerceBool ==
    /\ bool_result = NotCalled
    /\ bool_result' = empty_str_to_bool_default(environ["DEBUG_MODE"],
                                                SettingsDefaults.DEBUG_MODE)
    /\ UNCHANGED <<environ, AWS_REGIONS, phase, settings, error, int_result,
                   aws_session_, created, pc, local, returned, last_op>>

\* the getter of the max-faces Field: empty_str_to_int_default(v, MAX_FACES_COUNT)
CoerceInt ==
    /\ int_result = NotCalled
    /\ int_result' = empty_str_to_int_default(
                         environ["AWS_REKOGNITION_FACE_DETECT_MAX_FACES_COUNT"],
                         SettingsDefaults.AWS_REKOGNITION_FACE_DETECT_MAX_FACES_COUNT)
    /\ UNCHANGED <<environ, AWS_REGIONS, phase, settings, error, bool_result,
                   aws_session_, created, pc, local, returned, last_op>>

NextImport == Import \/ CoerceBool \/ CoerceInt

SpecImport == InitImport /\ [][NextImport]_vars


-----------------------------------------------------------------------------
(* The aws_session property, read by the threads that handle requests.     *)
(* s3_client, dynamodb_client, rekognition_client and dynamodb_table each   *)
(* start with a read of aws_session, so each of them takes these steps.     *)

\* `if not self._aws_session:`
TestSession(t) ==
    /\ phase = "ready"
    /\ pc[t] = "idle"
    /\ pc' = [pc EXCEPT ![t] = IF aws_session_.id = 0 THEN "build" ELSE "return"]
    /\ UNCHANGED <<environ, AWS_REGIONS, phase, settings, error, bool_result,
                   int_result, aws_session_, created, local, returned, last_op>>

\* boto3.Session(profile_name=self.aws_profile, region_name=self.aws_region),
\* or boto3.Session(region_name=self.aws_region) when aws_profile is falsy
NewSession(id, obj) ==
    IF Truthy(obj["aws_profile"])
    THEN [id |-> id, profile_name |-> obj["aws_profile"],
          region_name |-> obj["aws_region"]]
    ELSE [id |-> id, profile_name |-> None, region_name |-> obj["aws_region"]]

\* the right-hand side of the assignment: a new boto3.Session
BuildSession(t) ==
    /\ pc[t] = "build"
    /\ created' = created + 1
    /\ local' = [local EXCEPT ![t] = NewSession(created + 1, settings)]
    /\ pc' = [pc EXCEPT ![t] = "store"]
    /\ UNCHANGED <<environ, AWS_REGIONS, phase, settings, error, bool_result,
                   int_result, aws_session_, returned, last_op>>

\* `self._aws_session = ...`: a private attribute, which frozen leaves writable
StoreSession(t) ==
    /\ pc[t] = "store"
    /\ aws_session_' = local[t]
    /\ local' = [local EXCEPT ![t] = NoSession]
    /\ pc' = [pc EXCEPT ![t] = "return"]
    /\ UNCHANGED <<environ, AWS_REGIONS, phase, settings, error, bool_result,
                   int_result, created, returned, last_op>>

\* `return self._aws_session`
ReturnSession(t) ==
    /\ pc[t] = "return"
    /\ returned' = [returned EXCEPT ![t] = @ \cup {aws_session_.id}]
    /\ pc' = [pc EXCEPT ![t] = "idle"]
    /\ UNCHANGED <<environ, AWS_REGIONS, phase, settings, error, bool_result,
                   int_result, aws_session_, created, local, last_op>>

-----------------------------------------------------------------------------
(* class Config: frozen = True, and an assignment to a field *)

\* a Config without frozen: the variant C4 is compared against
Config_not_frozen == FALSE

Config_frozen == TRUE

\* settings.<f> = v: refused with a frozen_instance error when the model is
\* frozen, stored as it is otherwise
SetAttr(obj, f, v) ==
    IF Config_frozen
    THEN [raised |-> TRUE, obj |-> obj]
    ELSE [raised |-> FALSE, obj |-> [obj EXCEPT ![f] = v]]

\* values a caller may try to assign
AssignedValues == {Str(<<"x">>)}

Assign(f, v) ==
    /\ phase = "ready"
    /\ LET r == SetAttr(settings, f, v)
       IN  /\ settings' = r.obj
           /\ last_op' = [op |-> "setattr",
                          result |-> IF r.raised THEN "frozen_instance"
                                     ELSE "assigned",
                          out |-> NoSettings]
    /\ UNCHANGED <<environ, AWS_REGIONS, phase, error, bool_result, int_result,
                   aws_session_, created, pc, local, returned>>

\* the "environment" mapping of cloudwatch_dump, without the host's
\* os, system, release and boto3 version
cloudwatch_dump(obj) ==
    [AWS_REKOGNITION_COLLECTION_ID |-> obj["aws_rekognition_collection_id"],
     AWS_DYNAMODB_TABLE_ID |-> obj["aws_dynamodb_table_id"],
     MAX_FACES |-> obj["aws_rekognition_face_detect_attributes"],
     AWS_REKOGNITION_FACE_DETECT_ATTRIBUTES |->
         obj["aws_rekognition_face_detect_attributes"],
     QUALITY_FILTER |-> obj["aws_rekognition_face_detect_attributes"],
     DEBUG_MODE |-> obj["debug_mode"]]

CloudwatchDump ==
    /\ phase = "ready"
    /\ last_op' = [op |-> "cloudwatch_dump", result |-> "returned",
                   out |-> cloudwatch_dump(settings)]
    /\ UNCHANGED <<environ, AWS_REGIONS, phase, settings, error, bool_result,
                   int_result, aws_session_, created, pc, local, returned>>

Next ==
    \/ Import
    \/ \E t \in Threads : TestSession(t)
    \/ \E t \in Threads : BuildSession(t)
    \/ \E t \in Threads : StoreSession(t)
    \/ \E t \in Threads : ReturnSession(t)
    \/ \E f \in FieldNames, v \in AssignedValues : Assign(f, v)
    \/ CloudwatchDump

Spec == Init /\ [][Next]_vars


-----------------------------------------------------------------------------
(* Vocabulary of the properties *)

IsSet(raw) == raw # None /\ raw # Str(<<>>)
Imported == phase # "import"
HasSnapshot == DOMAIN settings # {}
ErrorFields == {error.lines[i].field : i \in 1..Len(error.lines)}

\* every key but k is unset
OnlyKey(k) == \A j \in SettingKeys \ {k} : environ[j] = None

\* the value the process reads for a setting: the attribute its Field is
\* assigned to, as the log lines 321 to 333 and cloudwatch_dump read it
SettingValue(k) == settings[FieldOf(k)]

\* the field's validation, run on its own against the environment
FieldFails(f) ==
    ~ValidateField(f, environ[EnvName(f)], "aws_regions" :> AWS_REGIONS).ok

-----------------------------------------------------------------------------
(* C1: a set, non-empty AWS_REGION outside AWS_REGIONS ends the import in    *)
(* one OpenAIAPIConfigurationError with a line for the field aws_region      *)
(* carrying the offending value, and no snapshot; a value inside AWS_REGIONS *)
(* gives no line for aws_region, is the snapshot's aws_region whenever a     *)
(* snapshot is built, and a failure then comes from another field.           *)
C1_RegionMembership ==
    (Imported /\ IsSet(environ["AWS_REGION"])) =>
        IF environ["AWS_REGION"].s \notin AWS_REGIONS
        THEN /\ phase = "failed"
             /\ ~HasSnapshot
             /\ error.exc = "OpenAIAPIConfigurationError"
             /\ \E i \in 1..Len(error.lines) :
                    /\ error.lines[i].field = "aws_region"
                    /\ error.lines[i].input = environ["AWS_REGION"]
                    /\ error.lines[i].msg[1] = "aws_region"
        ELSE /\ "aws_region" \notin ErrorFields
             /\ phase \in {"ready", "failed"}
             /\ phase = "failed" => ErrorFields # {}
             /\ phase = "ready" =>
                    /\ HasSnapshot
                    /\ settings["aws_region"] = environ["AWS_REGION"]

C1_Witness ==
    /\ phase = "failed"
    /\ environ["AWS_REGION"] = Str(<<"m","a","r","s","-","w","e","s","t","-","1">>)
    /\ ErrorFields = {"aws_region"}

(* C2: in every snapshot, aws_region is one of the snapshot's aws_regions,  *)
(* also when AWS_REGION was unset or empty and the default was substituted.  *)
C2_RegionInAllowedSet ==
    phase = "ready" => settings["aws_region"].s \in settings["aws_regions"]

(* C3: however the threads interleave in aws_session, one boto3.Session is  *)
(* created at most, and all accesses of all threads return that one.         *)
C3_SingleSession ==
    /\ created <= 1
    /\ Cardinality(UNION {returned[t] : t \in Threads}) <= 1

C5_OwnDefault ==
    Imported =>
        \A k \in SettingKeys :
            (OnlyKey(k) /\ ~IsSet(environ[k])
                /\ SettingsDefaults.AWS_REGION.s \in AWS_REGIONS)
            => /\ phase = "ready"
               /\ SettingValue(k) = SettingsDefaults[k]

\* the string settings of the identity-with-default rule
StringKeys ==
    {"AWS_PROFILE", "AWS_DYNAMODB_TABLE_ID", "AWS_REKOGNITION_COLLECTION_ID",
     "LANGCHAIN_MEMORY_KEY", "OPENAI_API_ORGANIZATION", "OPENAI_API_KEY",
     "OPENAI_ENDPOINT_IMAGE_SIZE", "PINECONE_API_KEY"}

(* C6: with every other key unset, a string setting set to a non-empty       *)
(* value, numeral or not, gives a snapshot holding that value unchanged.     *)
C6_StringPassThrough ==
    Imported =>
        \A k \in StringKeys :
            (OnlyKey(k) /\ IsSet(environ[k])
                /\ SettingsDefaults.AWS_REGION.s \in AWS_REGIONS)
            => /\ phase = "ready"
               /\ SettingValue(k) = environ[k]

(* C7: with every other key unset, OPENAI_ENDPOINT_IMAGE_N set to a value    *)
(* that is not an integer gives a snapshot whose openai_endpoint_image_n is  *)
(* the default 4, and no error.                                              *)
C7_ImageNFallsBack ==
    (Imported /\ OnlyKey("OPENAI_ENDPOINT_IMAGE_N")
        /\ IsSet(environ["OPENAI_ENDPOINT_IMAGE_N"])
        /\ ~IsIntLiteral(environ["OPENAI_ENDPOINT_IMAGE_N"].s)
        /\ SettingsDefaults.AWS_REGION.s \in AWS_REGIONS)
    => /\ phase = "ready"
       /\ SettingValue("OPENAI_ENDPOINT_IMAGE_N")
              = SettingsDefaults.OPENAI_ENDPOINT_IMAGE_N

\* the integer settings declared with gt=0
PositiveKeys ==
    {"AWS_REKOGNITION_FACE_DETECT_MAX_FACES_COUNT",
     "AWS_REKOGNITION_FACE_DETECT_THRESHOLD"}

(* C8: with every other key unset, a max-faces-count or threshold that       *)
(* parses to an integer <= 0 ends the import in an                           *)
(* OpenAIAPIConfigurationError with a line for that setting's field and no   *)
(* snapshot; one that parses to an integer > 0 is stored for the setting.    *)
C8_PositiveIntegers ==
    Imported =>
        \A k \in PositiveKeys :
            (OnlyKey(k) /\ IsSet(environ[k]) /\ IsIntLiteral(environ[k].s)
                /\ SettingsDefaults.AWS_REGION.s \in AWS_REGIONS)
            => IF IntLiteralValue(environ[k].s) <= 0
               THEN /\ phase = "failed"
                    /\ ~HasSnapshot
                    /\ FieldOf(k) \in ErrorFields
               ELSE /\ phase = "ready"
                    /\ SettingValue(k) = IntV(IntLiteralValue(environ[k].s))

(* C9: the import validates every field before it decides: when at least     *)
(* one field fails, it ends in exactly one OpenAIAPIConfigurationError whose *)
(* lines are the failing fields, all of them and each once, and there is no  *)
(* snapshot; when none fails, the snapshot is built.                         *)
C9_AllFailuresReported ==
    Imported =>
        LET failing == {f \in EnvFields : FieldFails(f)}
        IN  IF failing # {}
            THEN /\ phase = "failed"
                 /\ error.exc = "OpenAIAPIConfigurationError"
                 /\ ErrorFields = failing
                 /\ Len(error.lines) = Cardinality(failing)
                 /\ ~HasSnapshot
            ELSE /\ phase = "ready"
                 /\ error = NoError
                 /\ DOMAIN settings = FieldNames

C9_Witness ==
    /\ phase = "failed"
    /\ environ["AWS_REGION"] = Str(<<"m","a","r","s","-","w","e","s","t","-","1">>)
    /\ environ["AWS_REKOGNITION_FACE_DETECT_ATTRIBUTES"] = Str(<<"0">>)
    /\ ErrorFields = {"aws_region", "aws_rekognition_face_detect_attributes"}
    /\ ~HasSnapshot

(* C10: a non-empty DEBUG_MODE never fails the field; the snapshot's         *)
(* debug_mode is True exactly when the lower-cased value is one of "true",  *)
(* "1", "t", "y", "yes", so "True", "Yes" and "YES" give True; and           *)
(* empty_str_to_bool_default(v, DEBUG_MODE) returns what parse_debug_mode(v) *)
(* returns, for a str and for None.                                          *)
C10_DebugMode ==
    /\ (Imported /\ IsSet(environ["DEBUG_MODE"])) =>
           /\ "debug_mode" \notin ErrorFields
           /\ phase = "ready" =>
                  /\ settings["debug_mode"].t = "bool"
                  /\ settings["debug_mode"] = BoolV(TRUE)
                         <=> lower(environ["DEBUG_MODE"].s)
                                 \in {<<"t","r","u","e">>, <<"1">>, <<"t">>, <<"y">>, <<"y","e","s">>}
                  /\ environ["DEBUG_MODE"].s \in {<<"T","r","u","e">>, <<"Y","e","s">>, <<"Y","E","S">>}
                         => settings["debug_mode"] = BoolV(TRUE)
                  /\ environ["DEBUG_MODE"].s \in {<<"n","o">>, <<"o","n">>, <<"0">>}
                         => settings["debug_mode"] = BoolV(FALSE)
    /\ bool_result # NotCalled =>
           /\ parse_debug_mode(environ["DEBUG_MODE"]).ok
           /\ bool_result = parse_debug_mode(environ["DEBUG_MODE"]).v

C10_Witness ==
    /\ phase = "ready"
    /\ environ["DEBUG_MODE"] = Str(<<"Y","E","S">>)
    /\ settings["debug_mode"] = BoolV(TRUE)
    /\ bool_result = BoolV(TRUE)

=============================================================================
